---- MODULE Spec2Model ----
(***************************************************************************)
(* Diary Analyzer (src/src/App.tsx): the diary store, the payload          *)
(* validator parsePayload, the submit / clearAll / filter handlers and     *)
(* the period aggregation (weekly / monthly / yearly, avg,                 *)
(* averageDecagon, selectedWeeklyForPrompt).                               *)
(*                                                                         *)
(* Representation.                                                         *)
(*  - A JavaScript string is a sequence of one-character strings, so that  *)
(*    parsing, formatting, === and startsWith are computed on characters.  *)
(*    Messages shown to the user are never inspected by the program and    *)
(*    are kept as atomic strings (the Korean texts are rendered in ASCII). *)
(*  - A JavaScript number is NaN or an exact rational num/den in lowest    *)
(*    terms (every number of the model is a small integer, a half, or a    *)
(*    mean of small integers, for which the double arithmetic is exact up  *)
(*    to the final division).                                              *)
(*  - A Date is Invalid or a local calendar day (days since 1970-01-01)    *)
(*    with the minutes since local midnight.                               *)
(*  - The text pasted in the textarea is kept as its structure: how the    *)
(*    JSON is wrapped (fence, prose), whether the body is well-formed      *)
(*    JSON, and the document JSON.parse returns for it.                    *)
(***************************************************************************)
EXTENDS Integers, Sequences, FiniteSets

VARIABLES entries, rawInput, filterDate, error, weeklyCount, now,
          sorted, weekly, monthly, yearly, selectedWeeklyForPrompt

vars == <<entries, rawInput, filterDate, error, weeklyCount, now,
          sorted, weekly, monthly, yearly, selectedWeeklyForPrompt>>

(***************************************************************************)
(* Characters and numbers                                                  *)
(***************************************************************************)
Digits == <<"0", "1", "2", "3", "4", "5", "6", "7", "8", "9">>

IsDigit(c) == \E i \in 1..10 : Digits[i] = c

DigitVal(c) == (CHOOSE i \in 1..10 : Digits[i] = c) - 1

AllDigits(s) == \A i \in 1..Len(s) : IsDigit(s[i])

\* parseInt of a string of digits
RECURSIVE ParseDigits(_)
ParseDigits(s) ==
    IF s = <<>> THEN 0
    ELSE 10 * ParseDigits(SubSeq(s, 1, Len(s) - 1)) + DigitVal(s[Len(s)])

\* the decimal digits of a natural number
RECURSIVE NatToStr(_)
NatToStr(n) ==
    IF n < 10 THEN <<Digits[n + 1]>>
    ELSE NatToStr(n \div 10) \o <<Digits[(n % 10) + 1]>>

\* the digits of n, padded with zeros on the left to the given width
RECURSIVE PadStart(_, _)
PadStart(s, width) == IF Len(s) >= width THEN s ELSE PadStart(<<"0">> \o s, width)

Abs(n) == IF n < 0 THEN -n ELSE n

RECURSIVE GCD(_, _)
GCD(a, b) == IF b = 0 THEN a ELSE GCD(b, a % b)

NaN == [nan |-> TRUE, num |-> 0, den |-> 1]

\* the number num/den (den > 0), in lowest terms
Rat(n, d) ==
    LET g == GCD(Abs(n), d)
    IN  [nan |-> FALSE, num |-> n \div g, den |-> d \div g]

Num(n) == [nan |-> FALSE, num |-> n, den |-> 1]

\* Number.isInteger
IsInteger(x) == ~x.nan /\ x.den = 1

\* x < c, x > c, x >= c, x <= c for an integer c (all false for NaN)
NumLt(x, c) == ~x.nan /\ x.num < c * x.den
NumGt(x, c) == ~x.nan /\ x.num > c * x.den
NumGe(x, c) == ~x.nan /\ x.num >= c * x.den
NumLe(x, c) == ~x.nan /\ x.num <= c * x.den

NumAdd(x, y) ==
    IF x.nan \/ y.nan THEN NaN
    ELSE Rat(x.num * y.den + y.num * x.den, x.den * y.den)

\* x / n for a positive integer n
NumDiv(x, n) == IF x.nan THEN NaN ELSE Rat(x.num, x.den * n)

\* Math.trunc for a number that is not NaN
Trunc(x) == IF x.num >= 0 THEN x.num \div x.den ELSE -((-x.num) \div x.den)

\* String.prototype.trim, for the blank character
RECURSIVE TrimStart(_)
TrimStart(s) == IF s /= <<>> /\ s[1] = " " THEN TrimStart(Tail(s)) ELSE s

RECURSIVE TrimEnd(_)
TrimEnd(s) ==
    IF s /= <<>> /\ s[Len(s)] = " " THEN TrimEnd(SubSeq(s, 1, Len(s) - 1)) ELSE s

Trim(s) == TrimEnd(TrimStart(s))

\* the position of the first c in s, or 0
IndexOf(s, c) ==
    IF \E i \in 1..Len(s) : s[i] = c
    THEN CHOOSE i \in 1..Len(s) : s[i] = c /\ \A j \in 1..(i - 1) : s[j] /= c
    ELSE 0

RECURSIVE Pow10(_)
Pow10(k) == IF k = 0 THEN 1 ELSE 10 * Pow10(k - 1)

\* StringToNumber for decimal literals: blank-trimmed, "" is 0, an optional
\* sign, digits with an optional fraction; anything else is NaN.  (Hex,
\* exponent and Infinity literals are outside the inputs of this model.)
StringToNumber(str) ==
    LET t    == Trim(str)
        neg  == t /= <<>> /\ t[1] = "-"
        sgn  == t /= <<>> /\ (t[1] = "-" \/ t[1] = "+")
        u    == IF sgn THEN Tail(t) ELSE t
        dot  == IndexOf(u, ".")
        ip   == IF dot = 0 THEN u ELSE SubSeq(u, 1, dot - 1)
        fp   == IF dot = 0 THEN <<>> ELSE SubSeq(u, dot + 1, Len(u))
        mag  == ParseDigits(ip) * Pow10(Len(fp)) + ParseDigits(fp)
    IN  IF t = <<>> THEN Num(0)
        ELSE IF AllDigits(ip) /\ AllDigits(fp) /\ Len(ip) + Len(fp) > 0
        THEN Rat(IF neg THEN -mag ELSE mag, Pow10(Len(fp)))
        ELSE NaN

\* Number::toString for an integer or a number with one decimal digit
NumberToString(x) ==
    IF x.nan THEN <<"N", "a", "N">>
    ELSE LET sign   == IF x.num < 0 THEN <<"-">> ELSE <<>>
             tenths == (Abs(x.num) * 10) \div x.den
         IN  IF x.den = 1 THEN sign \o NatToStr(Abs(x.num))
             ELSE sign \o NatToStr(tenths \div 10) \o <<".">> \o NatToStr(tenths % 10)

(***************************************************************************)
(* Calendar: a local calendar day is counted in days since 1970-01-01      *)
(***************************************************************************)
IsLeapYear(y) == (y % 400 = 0) \/ ((y % 4 = 0) /\ (y % 100 /= 0))

DaysInMonth(y, m) ==
    IF m = 2 THEN (IF IsLeapYear(y) THEN 29 ELSE 28)
    ELSE IF m \in {4, 6, 9, 11} THEN 30 ELSE 31

\* the day number of year y, month m (1..12), day d; d may run past the
\* month's end, as the Date setters allow
DaysFromCivil(y, m, d) ==
    LET yy  == IF m <= 2 THEN y - 1 ELSE y
        era == yy \div 400
        yoe == yy - era * 400
        mp  == IF m > 2 THEN m - 3 ELSE m + 9
        doy == (153 * mp + 2) \div 5 + d - 1
        doe == yoe * 365 + yoe \div 4 - yoe \div 100 + doy
    IN  era * 146097 + doe - 719468

\* the year, month and day of a day number
CivilFromDays(z0) ==
    LET z   == z0 + 719468
        era == z \div 146097
        doe == z - era * 146097
        yoe == (doe - doe \div 1460 + doe \div 36524 - doe \div 146096) \div 365
        doy == doe - (365 * yoe + yoe \div 4 - yoe \div 100)
        mp  == (5 * doy + 2) \div 153
        d   == doy - (153 * mp + 2) \div 5 + 1
        m   == IF mp < 10 THEN mp + 3 ELSE mp - 9
    IN  [y |-> yoe + era * 400 + (IF m <= 2 THEN 1 ELSE 0), m |-> m, d |-> d]

\* Date.prototype.getDay: 0 is Sunday (1970-01-01 was a Thursday)
GetDay(day) == (day + 4) % 7

InvalidDate == [valid |-> FALSE, day |-> 0, min |-> 0]

\* a Date: the local calendar day and the minutes since local midnight
DateAt(day, min) == [valid |-> TRUE, day |-> day + (min \div 1440), min |-> min % 1440]

\* isValid (date-fns)
isValid(date) == date.valid

\* Date comparison a >= b, as the relational operator compares getTime()
DateGe(a, b) ==
    a.valid /\ b.valid /\ (a.day > b.day \/ (a.day = b.day /\ a.min >= b.min))

\* startOfISOWeek (date-fns): the Monday of the date's week, as a day number
startOfISOWeek(day) == day - ((GetDay(day) + 6) % 7)

\* getISOWeekYear (date-fns)
getISOWeekYear(day) ==
    LET year            == CivilFromDays(day).y
        startOfNextYear == startOfISOWeek(DaysFromCivil(year + 1, 1, 4))
        startOfThisYear == startOfISOWeek(DaysFromCivil(year, 1, 4))
    IN  IF day >= startOfNextYear THEN year + 1
        ELSE IF day >= startOfThisYear THEN year
        ELSE year - 1

\* startOfISOWeekYear (date-fns)
startOfISOWeekYear(day) == startOfISOWeek(DaysFromCivil(getISOWeekYear(day), 1, 4))

\* getISOWeek (date-fns): 1 + the whole weeks since the start of the ISO week-year
getISOWeek(date) ==
    ((startOfISOWeek(date.day) - startOfISOWeekYear(date.day)) \div 7) + 1

\* subDays (date-fns): the time of day is kept.  For an amount that is not
\* whole, release "v2" truncates the amount (toInteger) and later releases
\* pass getDate() - amount to setDate, which truncates the day of the month.
subDays(date, amount, release) ==
    IF IsInteger(amount) \/ release = "v2"
    THEN [date EXCEPT !.day = date.day - Trunc(amount)]
    ELSE LET dom == CivilFromDays(date.day).d
         IN  [date EXCEPT !.day = date.day - dom + Trunc(NumAdd(Num(dom), Rat(-amount.num, amount.den)))]

\* format(date, 'yyyy'), format(date, 'yyyy-MM'), format(date, 'yyyy-MM-dd')
FormatYear(date) == PadStart(NatToStr(CivilFromDays(date.day).y), 4)

FormatYearMonth(date) ==
    FormatYear(date) \o <<"-">> \o PadStart(NatToStr(CivilFromDays(date.day).m), 2)

FormatYearMonthDay(date) ==
    FormatYearMonth(date) \o <<"-">> \o PadStart(NatToStr(CivilFromDays(date.day).d), 2)

\* String.prototype.startsWith
StartsWith(s, prefix) ==
    Len(s) >= Len(prefix) /\ SubSeq(s, 1, Len(prefix)) = prefix

(***************************************************************************)
(* parseISO (date-fns) on the characters of the string.  Modelled: a date  *)
(* part YYYY, CC, YYYY-MM, YYYY-MM-DD, YYYYMMDD, YYYY-DDD, YYYY-Www,       *)
(* YYYY-Www-D (dashes optional as in the library's pattern), and after a   *)
(* "T" or a blank a time part hh, hhmm or hh:mm in local time.  Seconds,   *)
(* fractions, time zones and signed six-digit years are outside the        *)
(* inputs of this model.                                                   *)
(***************************************************************************)
CountOf(s, set) == Cardinality({i \in 1..Len(s) : s[i] \in set})

FirstOf(s, set) == CHOOSE i \in 1..Len(s) : s[i] \in set /\ \A j \in 1..(i - 1) : s[j] \notin set

\* splitDateString: the date and the time part (time is <<>> when absent;
\* ok is false when the string has no date part)
splitDateString(s) ==
    LET n == CountOf(s, {"T", " "})
        i == IF n = 0 THEN Len(s) + 1 ELSE FirstOf(s, {"T", " "})
        first == SubSeq(s, 1, i - 1)
        rest  == SubSeq(s, i + 1, Len(s))
    IN  IF n > 1 \/ CountOf(first, {":"}) > 0 \/ first = <<>>
        THEN [ok |-> FALSE, date |-> <<>>, time |-> <<>>]
        ELSE [ok |-> TRUE, date |-> first, time |-> rest]

\* parseYear: four digits at the start, or a string of two digits (a century)
parseYear(d) ==
    IF Len(d) >= 4 /\ AllDigits(SubSeq(d, 1, 4))
    THEN [ok |-> TRUE, year |-> ParseDigits(SubSeq(d, 1, 4)), rest |-> SubSeq(d, 5, Len(d))]
    ELSE IF Len(d) = 2 /\ AllDigits(d)
    THEN [ok |-> TRUE, year |-> ParseDigits(d) * 100, rest |-> <<>>]
    ELSE [ok |-> FALSE, year |-> 0, rest |-> <<>>]

\* dayOfISOWeekYear: the day number of weekday day (0 is Monday) of an ISO week
dayOfISOWeekYear(isoWeekYear, week, day) ==
    LET jan4 == DaysFromCivil(isoWeekYear, 1, 4)
        fourthOfJanuaryDay == IF GetDay(jan4) = 0 THEN 7 ELSE GetDay(jan4)
    IN  jan4 + (week - 1) * 7 + day + 1 - fourthOfJanuaryDay

NoDay == [ok |-> FALSE, day |-> 0]

SomeDay(day) == [ok |-> TRUE, day |-> day]

\* parseDate: the day for what follows the year, or NoDay (Invalid Date)
parseDate(rest, year) ==
    LET b == IF rest /= <<>> /\ rest[1] = "-" THEN Tail(rest) ELSE rest
        n == Len(b)
    IN  IF n = 0 THEN SomeDay(DaysFromCivil(year, 1, 1))
        ELSE IF b[1] = "W"
        THEN LET ww    == SubSeq(b, 2, 3)
                 dd    == IF n = 5 /\ b[4] = "-" THEN SubSeq(b, 5, 5) ELSE SubSeq(b, 4, n)
                 shape == n = 3 \/ n = 4 \/ (n = 5 /\ b[4] = "-")
                 week  == ParseDigits(ww)
                 dow   == (IF dd = <<>> THEN 1 ELSE ParseDigits(dd)) - 1
             IN  IF shape /\ AllDigits(ww) /\ AllDigits(dd)
                    /\ week >= 1 /\ week <= 53 /\ dow >= 0 /\ dow <= 6
                 THEN SomeDay(dayOfISOWeekYear(year, week, dow))
                 ELSE NoDay
        ELSE IF n = 3 /\ AllDigits(b)
        THEN LET dayOfYear == ParseDigits(b)
             IN  IF dayOfYear >= 1 /\ dayOfYear <= (IF IsLeapYear(year) THEN 366 ELSE 365)
                 THEN SomeDay(DaysFromCivil(year, 1, dayOfYear))
                 ELSE NoDay
        ELSE LET mm    == SubSeq(b, 1, 2)
                 dd    == IF n = 5 /\ b[3] = "-" THEN SubSeq(b, 4, 5) ELSE SubSeq(b, 3, n)
                 shape == n = 2 \/ n = 4 \/ (n = 5 /\ b[3] = "-")
                 month == ParseDigits(mm)
                 day   == IF dd = <<>> THEN 1 ELSE ParseDigits(dd)
             IN  IF shape /\ AllDigits(mm) /\ AllDigits(dd)
                    /\ month >= 1 /\ month <= 12
                    /\ day >= 1 /\ day <= DaysInMonth(year, month)
                 THEN SomeDay(DaysFromCivil(year, month, day))
                 ELSE NoDay

\* parseTime: the minutes of hh, hhmm or hh:mm, or -1 (NaN)
parseTime(t) ==
    LET n  == Len(t)
        hh == SubSeq(t, 1, 2)
        mm == IF n = 5 /\ t[3] = ":" THEN SubSeq(t, 4, 5) ELSE SubSeq(t, 3, n)
        shape   == n = 2 \/ n = 4 \/ (n = 5 /\ t[3] = ":")
        hours   == ParseDigits(hh)
        minutes == IF mm = <<>> THEN 0 ELSE ParseDigits(mm)
    IN  IF shape /\ AllDigits(hh) /\ AllDigits(mm)
           /\ (IF hours = 24 THEN minutes = 0 ELSE hours < 24 /\ minutes < 60)
        THEN hours * 60 + minutes
        ELSE -1

parseISO(s) ==
    LET parts == splitDateString(s)
        yr    == parseYear(parts.date)
        date  == IF parts.ok /\ yr.ok THEN parseDate(yr.rest, yr.year) ELSE NoDay
        time  == IF parts.time = <<>> THEN 0 ELSE parseTime(parts.time)
    IN  IF ~date.ok \/ time < 0 THEN InvalidDate ELSE DateAt(date.day, time)

(***************************************************************************)
(* JSON values.  A value has a kind k and, by kind, a number, the          *)
(* characters of a string, the items of an array, or the properties of an  *)
(* object under the ten score keys (a property that is absent reads as     *)
(* undefined, also on a value that is not an object).  Items and           *)
(* properties are leaves: values without items and properties of their own *)
(* (a leaf of kind array is [], a leaf of kind object is {}).              *)
(***************************************************************************)
scoreKeys ==
    <<"career", "health", "finance", "relationships", "selfGrowth",
      "productivity", "emotional", "discipline", "creativity", "leisure">>

ScoreKeySet == {scoreKeys[i] : i \in 1..Len(scoreKeys)}

Leaf(k, x, str) == [k |-> k, num |-> x, s |-> str]

UndefinedLeaf == Leaf("undefined", NaN, <<>>)
NullLeaf == Leaf("null", NaN, <<>>)
BoolLeaf(b) == Leaf(IF b THEN "true" ELSE "false", NaN, <<>>)
NumLeaf(x) == Leaf("number", x, <<>>)
StrLeaf(str) == Leaf("string", NaN, str)
EmptyArrayLeaf == Leaf("array", NaN, <<>>)
EmptyObjectLeaf == Leaf("object", NaN, <<>>)

NoProps == [key \in ScoreKeySet |-> UndefinedLeaf]

Value(leaf, items, props) ==
    [k |-> leaf.k, num |-> leaf.num, s |-> leaf.s, items |-> items, props |-> props]

Scalar(leaf) == Value(leaf, <<>>, NoProps)

Undefined == Scalar(UndefinedLeaf)
Null == Scalar(NullLeaf)
JNum(x) == Scalar(NumLeaf(x))
JStr(str) == Scalar(StrLeaf(str))
JArr(items) == Value(EmptyArrayLeaf, items, NoProps)
JObj(props) == Value(EmptyObjectLeaf, <<>>, props)

\* an object holding the given properties (a function on some of the score keys)
ObjOf(given) ==
    JObj([key \in ScoreKeySet |-> IF key \in DOMAIN given THEN given[key] ELSE UndefinedLeaf])

\* String(value) for a leaf
LeafToString(v) ==
    CASE v.k = "undefined" -> <<"u", "n", "d", "e", "f", "i", "n", "e", "d">>
      [] v.k = "null"      -> <<"n", "u", "l", "l">>
      [] v.k = "true"      -> <<"t", "r", "u", "e">>
      [] v.k = "false"     -> <<"f", "a", "l", "s", "e">>
      [] v.k = "number"    -> NumberToString(v.num)
      [] v.k = "string"    -> v.s
      [] v.k = "array"     -> <<>>
      [] v.k = "object"    ->
           <<"[", "o", "b", "j", "e", "c", "t", " ", "O", "b", "j", "e", "c", "t", "]">>

\* Array.prototype.join(","): null and undefined items give the empty string
RECURSIVE Join(_)
Join(items) ==
    IF items = <<>> THEN <<>>
    ELSE LET x    == items[Len(items)]
             last == IF x.k \in {"undefined", "null"} THEN <<>> ELSE LeafToString(x)
         IN  IF Len(items) = 1 THEN last
             ELSE Join(SubSeq(items, 1, Len(items) - 1)) \o <<",">> \o last

\* String(value)
StringOf(v) == IF v.k = "array" THEN Join(v.items) ELSE LeafToString(v)

\* Number(value)
NumberOf(v) ==
    CASE v.k = "undefined" -> NaN
      [] v.k = "null"      -> Num(0)
      [] v.k = "true"      -> Num(1)
      [] v.k = "false"     -> Num(0)
      [] v.k = "number"    -> v.num
      [] v.k = "string"    -> StringToNumber(v.s)
      [] v.k = "array"     -> StringToNumber(StringOf(v))
      [] v.k = "object"    -> NaN

\* ToBoolean(value)
Truthy(v) ==
    CASE v.k \in {"undefined", "null", "false"} -> FALSE
      [] v.k = "number" -> ~v.num.nan /\ v.num.num /= 0
      [] v.k = "string" -> v.s /= <<>>
      [] OTHER -> TRUE

\* value ?? fallback
Nullish(v) == v.k \in {"undefined", "null"}

Coalesce(v, fallback) == IF Nullish(v) THEN fallback ELSE v

\* Array.isArray(value) ? value.map(String) : []
StringList(v) ==
    IF v.k = "array" THEN [i \in 1..Len(v.items) |-> LeafToString(v.items[i])] ELSE <<>>

(***************************************************************************)
(* The document JSON.parse returns: its top-level kind and, for an object, *)
(* the properties parsePayload reads (all undefined on another kind).      *)
(***************************************************************************)
DocFields ==
    {"date", "summary", "encouragement", "strengths", "weaknesses", "feedback",
     "overallWrapUp", "lifeHelpScore", "decagonScores", "areas"}

\* a document of the given top-level kind with no property
Doc(top) ==
    [top |-> top, date |-> Undefined, summary |-> Undefined,
     encouragement |-> Undefined, strengths |-> Undefined, weaknesses |-> Undefined,
     feedback |-> Undefined, overallWrapUp |-> Undefined, lifeHelpScore |-> Undefined,
     decagonScores |-> Undefined, areas |-> Undefined]

\* the pasted text: wrap is "none" (the body alone), "fence" (the body in a
\* ```json fence), "proseFence" (such a fence with text around it) or "prose"
\* (text around a body without a fence); body is "empty", "garbage" (not
\* well-formed JSON) or "json", with the document it denotes
Raw(wrap, body, doc) == [wrap |-> wrap, body |-> body, doc |-> doc]

EmptyText == Raw("none", "empty", Doc("null"))

sanitizeJson(raw) ==
    IF raw.wrap \in {"fence", "proseFence"} THEN [body |-> raw.body, doc |-> raw.doc]
    ELSE IF raw.wrap = "prose" THEN [body |-> "garbage", doc |-> raw.doc]
    ELSE [body |-> raw.body, doc |-> raw.doc]

(***************************************************************************)
(* Messages                                                                *)
(***************************************************************************)
\* 'date는 YYYY-MM-DD 형식이어야 합니다.'
DateErrorMessage == "date must be in YYYY-MM-DD format"

\* 'lifeHelpScore는 1~10 정수여야 합니다.'
ScoreErrorMessage == "lifeHelpScore must be an integer from 1 to 10"

\* 'JSON 파싱에 실패했습니다.'
ParseFallbackMessage == "JSON parsing failed"

\* '클립보드 복사에 실패했습니다. 수동 복사해주세요.'
ClipboardErrorMessage == "clipboard copy failed, copy manually"

\* the messages of the engine's own errors (the texts are those of V8)
SyntaxErrorEndMessage == "Unexpected end of JSON input"
SyntaxErrorTokenMessage == "Unexpected token in JSON"
NullTypeErrorMessage == "Cannot read properties of null (reading 'date')"
SplitTypeErrorMessage == "dateString.split is not a function"

\* a toScore that lets values above 10 through
toScoreUnbounded(value) ==
    LET n == NumberOf(Scalar(value))
    IN  IF IsInteger(n) /\ NumGe(n, 0) THEN n ELSE Num(0)

\* toScore
toScore(value) ==
    LET n == NumberOf(Scalar(value))
    IN  IF IsInteger(n) /\ NumGe(n, 0) /\ NumLe(n, 10) THEN n ELSE Num(0)

\* the result of a call: a returned payload, or a thrown exception
NoPayload == [date |-> <<>>]

Throw(isError, message) ==
    [ok |-> FALSE, payload |-> NoPayload, isError |-> isError, message |-> message]

Return(payload) == [ok |-> TRUE, payload |-> payload, isError |-> FALSE, message |-> ""]

\* JSON.parse of the sanitized text
JsonParse(text) ==
    CASE text.body = "empty"   -> Throw(TRUE, SyntaxErrorEndMessage)
      [] text.body = "garbage" -> Throw(TRUE, SyntaxErrorTokenMessage)
      [] text.body = "json"    -> [ok |-> TRUE, payload |-> text.doc, isError |-> FALSE, message |-> ""]

\* The date-fns releases differ on parseISO of a value that is not a string:
\* "v2" returns Invalid Date, "v3" (and later) calls split on it and throws.
DateFnsReleases == {"v2", "v3"}

\* the decagonScores of the payload
NormalizeScores(parsed) ==
    LET source == Coalesce(parsed.decagonScores, Coalesce(parsed.areas, JObj(NoProps)))
    IN  [key \in ScoreKeySet |-> toScore(source.props[key])]

\* the payload returned for a document that passed the checks
PayloadOf(parsed, score) ==
    [date           |-> parsed.date.s,
     summary        |-> StringOf(Coalesce(parsed.summary, JStr(<<>>))),
     encouragement  |-> StringOf(Coalesce(parsed.encouragement, JStr(<<>>))),
     strengths      |-> StringList(parsed.strengths),
     weaknesses     |-> StringList(parsed.weaknesses),
     feedback       |-> StringOf(Coalesce(parsed.feedback, JStr(<<>>))),
     overallWrapUp  |-> StringOf(Coalesce(parsed.overallWrapUp, JStr(<<>>))),
     lifeHelpScore  |-> score,
     decagonScores  |-> NormalizeScores(parsed)]

\* a score check whose lower bound is 0
CheckScoreFromZero(parsed) ==
    LET score == NumberOf(parsed.lifeHelpScore)
    IN  IF ~IsInteger(score) \/ NumLt(score, 0) \/ NumGt(score, 10)
        THEN Throw(TRUE, ScoreErrorMessage)
        ELSE Return(PayloadOf(parsed, score))

\* the check of the score
CheckScore(parsed) ==
    LET score == NumberOf(parsed.lifeHelpScore)
    IN  IF ~IsInteger(score) \/ NumLt(score, 1) \/ NumGt(score, 10)
        THEN Throw(TRUE, ScoreErrorMessage)
        ELSE Return(PayloadOf(parsed, score))

\* a validation that checks the score before the date
CheckScoreFirst(parsed, release) ==
    IF ~CheckScore(parsed).ok /\ CheckScore(parsed).message = ScoreErrorMessage
    THEN Throw(TRUE, ScoreErrorMessage)
    ELSE IF ~Truthy(parsed.date) \/ parsed.date.k /= "string" \/ ~isValid(parseISO(parsed.date.s))
    THEN Throw(TRUE, DateErrorMessage)
    ELSE CheckScore(parsed)

\* the check of the date
CheckDate(parsed, release) ==
    IF ~Truthy(parsed.date) THEN Throw(TRUE, DateErrorMessage)
    ELSE IF parsed.date.k /= "string"
    THEN (IF release = "v2" THEN Throw(TRUE, DateErrorMessage)
          ELSE Throw(TRUE, SplitTypeErrorMessage))
    ELSE IF ~isValid(parseISO(parsed.date.s)) THEN Throw(TRUE, DateErrorMessage)
    ELSE CheckScore(parsed)

parsePayload(raw, release) ==
    LET json == JsonParse(sanitizeJson(raw))
    IN  IF ~json.ok THEN json
        ELSE IF json.payload.top = "null" THEN Throw(TRUE, NullTypeErrorMessage)
        ELSE CheckDate(json.payload, release)

(***************************************************************************)
(* The store (useDiaryStore) and the derived lists of App                  *)
(***************************************************************************)
MaxEntries == 2

RECURSIVE IdsOf(_)
IdsOf(list) == IF list = <<>> THEN {} ELSE {Head(list).id} \cup IdsOf(Tail(list))

\* crypto.randomUUID(): an identifier no stored entry has.  Identifiers are
\* only compared for equality, so the least unused number stands for it.
randomUUID(list) == CHOOSE i \in 1..(Len(list) + 1) : i \notin IdsOf(list)

\* the stored entry: the payload with id and createdAt (createdAt is kept as
\* the Date it is the ISO string of)
EntryOf(payload, id, t) ==
    [date           |-> payload.date,
     summary        |-> payload.summary,
     encouragement  |-> payload.encouragement,
     strengths      |-> payload.strengths,
     weaknesses     |-> payload.weaknesses,
     feedback       |-> payload.feedback,
     overallWrapUp  |-> payload.overallWrapUp,
     lifeHelpScore  |-> payload.lifeHelpScore,
     decagonScores  |-> payload.decagonScores,
     id             |-> id,
     createdAt      |-> t]

\* an addEntry that stores the feedback under summary
addEntrySwapped(payload, list, t) ==
    <<EntryOf([payload EXCEPT !.summary = payload.feedback], randomUUID(list), t)>> \o list

\* an addEntry that puts the new entry last
addEntryLast(payload, list, t) == list \o <<EntryOf(payload, randomUUID(list), t)>>

\* addEntry: the new entry is put first
addEntry(payload, list, t) == <<EntryOf(payload, randomUUID(list), t)>> \o list

\* clearAll
clearAll == <<>>

\* new Date(string).getTime() as the sort of `sorted` reads it.  A date-only
\* ISO string is UTC midnight and an ISO date-time without offset is local
\* time; any other string is parsed in an implementation-defined way.
IsoDateOnly(str) ==
    \/ (Len(str) = 4 /\ AllDigits(str))
    \/ (Len(str) = 7 /\ str[5] = "-" /\ AllDigits(SubSeq(str, 1, 4) \o SubSeq(str, 6, 7)))
    \/ (Len(str) = 10 /\ str[5] = "-" /\ str[8] = "-"
        /\ AllDigits(SubSeq(str, 1, 4) \o SubSeq(str, 6, 7) \o SubSeq(str, 9, 10)))

IsoDateTime(str) ==
    Len(str) = 16 /\ str[11] = "T" /\ str[14] = ":" /\ IsoDateOnly(SubSeq(str, 1, 10))
    /\ AllDigits(SubSeq(str, 12, 13) \o SubSeq(str, 15, 16))

\* minutes since the epoch, for a local offset tz (minutes east of UTC)
GetTime(str, tz) ==
    LET d == parseISO(str)
    IN  d.day * 1440 + d.min - (IF IsoDateTime(str) THEN tz ELSE 0)

\* the offsets of the user's time zone that are modelled
TimeZones == {-480, 0, 540}

\* a stable insertion of e into a list sorted by descending time
RECURSIVE InsertDesc(_, _, _)
InsertDesc(e, list, tz) ==
    IF list = <<>> THEN <<e>>
    ELSE IF GetTime(Head(list).date, tz) >= GetTime(e.date, tz)
    THEN <<Head(list)>> \o InsertDesc(e, Tail(list), tz)
    ELSE <<e>> \o list

RECURSIVE SortDesc(_, _)
SortDesc(list, tz) ==
    IF list = <<>> THEN <<>>
    ELSE InsertDesc(list[Len(list)], SortDesc(SubSeq(list, 1, Len(list) - 1), tz), tz)

Orderings(list) ==
    {[i \in 1..Len(list) |-> list[f[i]]] :
        f \in {g \in [1..Len(list) -> 1..Len(list)] :
                 \A i, j \in 1..Len(list) : i /= j => g[i] /= g[j]}}

\* sorted: the copies of the entries by descending date.  When a date is not
\* in a form new Date must parse, the comparator's result is up to the
\* engine and so is the order.
SortedOutcomes(list) ==
    IF \A i \in 1..Len(list) : IsoDateOnly(list[i].date) \/ IsoDateTime(list[i].date)
    THEN {SortDesc(list, tz) : tz \in TimeZones}
    ELSE Orderings(list)

\* the entries of the day the session runs on, whatever the date filter is
filteredToday ==
    LET Test(e) == e.date = FormatYearMonthDay(now) IN SelectSeq(sorted, Test)

\* filtered
filtered == LET Test(e) == e.date = filterDate IN SelectSeq(sorted, Test)

\* weekly
weeklyOf(list, t) ==
    LET thisWeek == getISOWeek(t)
        thisYear == StringToNumber(FormatYear(t))
        Test(e)  == LET d == parseISO(e.date)
                    IN  StringToNumber(FormatYear(d)) = thisYear /\ getISOWeek(d) = thisWeek
    IN  SelectSeq(list, Test)

\* monthly
monthlyOf(list, t) ==
    LET ym == FormatYearMonth(t)
        Test(e) == StartsWith(e.date, ym)
    IN  SelectSeq(list, Test)

\* yearly
yearlyOf(list, t) ==
    LET y == FormatYear(t)
        Test(e) == StartsWith(e.date, y)
    IN  SelectSeq(list, Test)

\* Array.prototype.slice(0, n)
SliceTo(list, n) == SubSeq(list, 1, IF Trunc(n) < Len(list) THEN Trunc(n) ELSE Len(list))

\* the date filter of selectedWeeklyForPrompt
recentOf(list, count, t, release) ==
    LET from == subDays(t, NumAdd(count, Num(-1)), release)
        Test(e) == DateGe(parseISO(e.date), from)
    IN  SelectSeq(list, Test)

\* selectedWeeklyForPrompt
selectedOf(list, count, t, release) == SliceTo(recentOf(list, count, t, release), count)

\* selectedWeeklyForPrompt under the date-fns release the build may hold
SelectedOutcomes(list, count, t) ==
    {selectedOf(list, count, t, release) : release \in DateFnsReleases}

(***************************************************************************)
(* Aggregation                                                             *)
(***************************************************************************)
defaultScores == [key \in ScoreKeySet |-> Num(0)]

\* values.reduce((a, b) => a + b, 0)
RECURSIVE Sum(_)
Sum(values) ==
    IF values = <<>> THEN Num(0)
    ELSE NumAdd(Sum(SubSeq(values, 1, Len(values) - 1)), values[Len(values)])

\* a running mean: each value is averaged with the mean of those before it
RECURSIVE avgRunning(_)
avgRunning(values) ==
    IF Len(values) = 0 THEN Num(0)
    ELSE IF Len(values) = 1 THEN values[1]
    ELSE NumDiv(NumAdd(avgRunning(SubSeq(values, 1, Len(values) - 1)), values[Len(values)]), 2)

\* avg
avg(values) == IF Len(values) = 0 THEN Num(0) ELSE NumDiv(Sum(values), Len(values))

\* items.map((i) => i.lifeHelpScore)
LifeHelpScores(list) == [i \in 1..Len(list) |-> list[i].lifeHelpScore]

\* averageDecagon
averageDecagon(list) ==
    IF Len(list) = 0 THEN defaultScores
    ELSE [key \in ScoreKeySet |-> avg([i \in 1..Len(list) |-> list[i].decagonScores[key]])]

(***************************************************************************)
(* The handlers of App.  Every handler that reads the clock reads `now`,   *)
(* the time at which the session runs;                                     *)
(* the lists React memoizes are recomputed by the handler that changes a   *)
(* dependency of theirs (entries for sorted, weekly, monthly and yearly;   *)
(* sorted or weeklyCount for selectedWeeklyForPrompt).  The copied flag    *)
(* and the prompt text only label buttons and are not part of the state.   *)
(***************************************************************************)
\* the lists derived from the entries, as a render at time t computes them
Derived(list, count, t) ==
    /\ sorted' \in SortedOutcomes(list)
    /\ weekly' = weeklyOf(list, t)
    /\ monthly' = monthlyOf(list, t)
    /\ yearly' = yearlyOf(list, t)
    /\ selectedWeeklyForPrompt' \in SelectedOutcomes(sorted', count, t)

\* the state of App when it mounts at time t on the persisted entries
Mount(list, raw, t) ==
    /\ entries = list
    /\ rawInput = raw
    /\ filterDate = FormatYearMonthDay(t)
    /\ error = ""
    /\ weeklyCount = Num(7)
    /\ now = t
    /\ sorted \in SortedOutcomes(list)
    /\ weekly = weeklyOf(list, t)
    /\ monthly = monthlyOf(list, t)
    /\ yearly = yearlyOf(list, t)
    /\ selectedWeeklyForPrompt \in SelectedOutcomes(sorted, Num(7), t)

\* onChange of the textarea
EditInput(raw) ==
    /\ rawInput' = raw
    /\ UNCHANGED <<entries, filterDate, error, weeklyCount, now,
                   sorted, weekly, monthly, yearly, selectedWeeklyForPrompt>>

\* the reset button
ResetInput ==
    /\ rawInput' = EmptyText
    /\ UNCHANGED <<entries, filterDate, error, weeklyCount, now,
                   sorted, weekly, monthly, yearly, selectedWeeklyForPrompt>>

\* the message the catch of submit shows
CaughtMessage(result) == IF result.isError THEN result.message ELSE ParseFallbackMessage

\* the payload of defaults
BlankPayload ==
    [date |-> <<>>, summary |-> <<>>, encouragement |-> <<>>, strengths |-> <<>>,
     weaknesses |-> <<>>, feedback |-> <<>>, overallWrapUp |-> <<>>,
     lifeHelpScore |-> Num(0), decagonScores |-> defaultScores]

\* a submit that stores an entry whether or not the payload was accepted
SubmittedEntriesUnchecked(result, list, t) ==
    addEntry(IF result.ok THEN result.payload ELSE BlankPayload, list, t)

\* the entries after submit
SubmittedEntries(result, list, t) ==
    IF result.ok THEN addEntry(result.payload, list, t) ELSE list

\* submit
Submit ==
    \E result \in {parsePayload(rawInput, release) : release \in DateFnsReleases} :
        /\ result.ok => Len(entries) < MaxEntries
        /\ entries' = SubmittedEntries(result, entries, now)
        /\ rawInput' = IF result.ok THEN EmptyText ELSE rawInput
        /\ error' = IF result.ok THEN "" ELSE CaughtMessage(result)
        /\ filterDate' = IF result.ok THEN result.payload.date ELSE filterDate
        /\ IF entries' = entries
           THEN UNCHANGED <<sorted, weekly, monthly, yearly, selectedWeeklyForPrompt>>
           ELSE Derived(entries', weeklyCount, now)
        /\ UNCHANGED <<weeklyCount, now>>

\* the delete-all button
ClearAll ==
    /\ entries' = clearAll
    /\ Derived(entries', weeklyCount, now)
    /\ UNCHANGED <<rawInput, filterDate, error, weeklyCount, now>>

\* onChange of the date input
SetFilterDate(value) ==
    /\ filterDate' = value
    /\ UNCHANGED <<entries, rawInput, error, weeklyCount, now,
                   sorted, weekly, monthly, yearly, selectedWeeklyForPrompt>>

\* Math.max(1, Math.min(30, Number(value) || 7))
ClampWeeklyCount(value) ==
    LET n == StringToNumber(value)
        m == IF n.nan \/ n.num = 0 THEN Num(7) ELSE n
        lo == IF NumLt(m, 30) THEN m ELSE Num(30)
    IN  IF NumGt(lo, 1) THEN lo ELSE Num(1)

\* onChange of the number input
SetWeeklyCount(value) ==
    /\ weeklyCount' = ClampWeeklyCount(value)
    /\ selectedWeeklyForPrompt' \in
          IF weeklyCount' = weeklyCount THEN {selectedWeeklyForPrompt}
          ELSE SelectedOutcomes(sorted, weeklyCount', now)
    /\ UNCHANGED <<entries, rawInput, filterDate, error, now,
                   sorted, weekly, monthly, yearly>>

\* copyText: the clipboard write succeeds or is refused
CopyText(succeeds) ==
    /\ error' = IF succeeds THEN error ELSE ClipboardErrorMessage
    /\ UNCHANGED <<entries, rawInput, filterDate, weeklyCount, now,
                   sorted, weekly, monthly, yearly, selectedWeeklyForPrompt>>

(***************************************************************************)
(* Inputs                                                                  *)
(***************************************************************************)
Pad2(n) == PadStart(NatToStr(n), 2)

\* "YYYY-MM-DD", "YYYYMMDD", "YYYY-Www-D", "YYYY-MM", "YYYY-DDD", "...Thh:mm"
YMD(y, m, d) == PadStart(NatToStr(y), 4) \o <<"-">> \o Pad2(m) \o <<"-">> \o Pad2(d)
CompactDate(y, m, d) == PadStart(NatToStr(y), 4) \o Pad2(m) \o Pad2(d)
WeekDate(y, w, d) == PadStart(NatToStr(y), 4) \o <<"-", "W">> \o Pad2(w) \o <<"-">> \o NatToStr(d)
YearMonth(y, m) == PadStart(NatToStr(y), 4) \o <<"-">> \o Pad2(m)
OrdinalDate(y, n) == PadStart(NatToStr(y), 4) \o <<"-">> \o PadStart(NatToStr(n), 3)
WithTime(date, h, m) == date \o <<"T">> \o Pad2(h) \o <<":">> \o Pad2(m)

\* a time of day on a calendar day
At(y, m, d, h, mi) == DateAt(DaysFromCivil(y, m, d), h * 60 + mi)

\* an object document with the given properties (the others absent)
ObjectDoc(date, score, scores, areas, summary, strengths) ==
    [Doc("object") EXCEPT !.date = date, !.lifeHelpScore = score,
                          !.decagonScores = scores, !.areas = areas,
                          !.summary = summary, !.strengths = strengths]

SomeScores == ObjOf([career |-> NumLeaf(Num(8)), health |-> NumLeaf(Num(6))])

\* the example of the README: five of the keys, under areas
ReadmeAreas ==
    ObjOf([career |-> NumLeaf(Num(8)), health |-> NumLeaf(Num(6)),
           finance |-> NumLeaf(Num(5)), relationships |-> NumLeaf(Num(7)),
           selfGrowth |-> NumLeaf(Num(9))])

TextOk == JStr(<<"o", "k">>)

ListA == JArr(<<StrLeaf(<<"a">>)>>)

\* a well-formed entry document with the given date string and score
GoodDoc(date, score) == ObjectDoc(JStr(date), JNum(Num(score)), SomeScores, Undefined, TextOk, ListA)

\* the texts the user pastes in the sessions of Spec
SampleInputs ==
    { Raw("fence", "json", GoodDoc(YMD(2024, 12, 30), 4)),
      Raw("proseFence", "json",
          ObjectDoc(JStr(YMD(2024, 12, 31)), JStr(<<"8">>), Undefined, ReadmeAreas,
                    Undefined, Undefined)),
      Raw("none", "json", GoodDoc(WithTime(YMD(2024, 12, 30), 14, 30), 10)),
      Raw("none", "garbage", Doc("null")),
      Raw("prose", "json", GoodDoc(YMD(2024, 12, 30), 4)),
      Raw("fence", "json", Doc("null")),
      Raw("fence", "json", GoodDoc(YMD(2024, 2, 30), 4)),
      Raw("fence", "json", GoodDoc(YMD(2024, 12, 30), 11)) }

\* the values the date input gives
FilterInputs == {<<>>, YMD(2024, 12, 31)}

\* the values the number input gives
WeeklyCountInputs ==
    {<<>>, <<"0">>, <<"1">>, <<"2">>, <<"3", "0">>, <<"3", "1">>, <<"-", "3">>,
     <<"2", ".", "5">>, <<"x">>}

\* the time at which the sessions of Spec run
SessionTimes == {At(2024, 12, 30, 14, 30)}

Init == \E t \in SessionTimes : Mount(<<>>, EmptyText, t)

Next ==
    \/ \E raw \in SampleInputs : EditInput(raw)
    \/ ResetInput
    \/ Submit
    \/ ClearAll
    \/ \E value \in FilterInputs : SetFilterDate(value)
    \/ \E value \in {<<>>, <<"1">>} : SetWeeklyCount(value)
    \/ \E succeeds \in BOOLEAN : CopyText(succeeds)

Spec == Init /\ [][Next]_vars

(***************************************************************************)
(* SpecParse: submit on every text of AllInputs, pasted into a store that  *)
(* is empty or holds an entry persisted by an earlier session.             *)
(***************************************************************************)
Day1 == YMD(2024, 12, 30)

DateValues ==
    { Undefined, Null, JStr(<<>>), JNum(Num(0)), JNum(Num(20241230)),
      Scalar(BoolLeaf(TRUE)), Scalar(BoolLeaf(FALSE)),
      JArr(<<StrLeaf(Day1)>>), JObj(NoProps),
      JStr(Day1), JStr(YMD(2024, 2, 29)), JStr(YMD(2023, 2, 29)),
      JStr(YMD(2024, 13, 1)), JStr(YMD(2024, 4, 31)), JStr(YMD(2024, 12, 0)),
      JStr(CompactDate(2024, 12, 30)), JStr(WeekDate(2025, 1, 1)),
      JStr(WeekDate(2025, 54, 1)),
      JStr(WithTime(Day1, 14, 30)), JStr(WithTime(Day1, 25, 0)),
      JStr(YearMonth(2024, 12)), JStr(<<"2", "0", "2", "4">>),
      JStr(OrdinalDate(2024, 366)), JStr(OrdinalDate(2023, 366)),
      JStr(<<"y", "e", "s", "t", "e", "r", "d", "a", "y">>),
      JStr(<<"2", "0", "2", "4", "/", "1", "2", "/", "3", "0">>),
      JStr(Day1 \o <<" ">>), JStr(<<" ">> \o Day1) }

ScoreValues ==
    { Undefined, Null, JNum(Num(0)), JNum(Num(1)), JNum(Num(5)), JNum(Num(10)),
      JNum(Num(11)), JNum(Num(-1)), JNum(Rat(11, 2)),
      JStr(<<"8">>), JStr(<<"1", "1">>), JStr(<<>>), JStr(<<"a", "b", "c">>),
      JStr(<<" ", "7", " ">>), JStr(<<"5", ".", "5">>),
      Scalar(BoolLeaf(TRUE)), Scalar(BoolLeaf(FALSE)),
      JArr(<<>>), JArr(<<NumLeaf(Num(5))>>), JArr(<<NumLeaf(Num(5)), NumLeaf(Num(6))>>),
      JObj(NoProps) }

SubScoreLeaves ==
    { UndefinedLeaf, NullLeaf, NumLeaf(Num(0)), NumLeaf(Num(3)), NumLeaf(Num(10)),
      NumLeaf(Num(11)), NumLeaf(Num(-1)), NumLeaf(Rat(5, 2)),
      StrLeaf(<<"7">>), StrLeaf(<<"x">>), StrLeaf(<<>>), BoolLeaf(TRUE),
      EmptyArrayLeaf, EmptyObjectLeaf }

ScoreSources ==
    { Undefined, Null, JNum(Num(5)), JStr(<<"x">>), JArr(<<>>), JObj(NoProps) }
    \cup { ObjOf([career |-> v, leisure |-> w]) :
             v \in SubScoreLeaves, w \in {UndefinedLeaf, NumLeaf(Num(4))} }

AreaSources ==
    { Undefined, Null, JNum(Num(3)), ReadmeAreas, ObjOf([career |-> NumLeaf(Num(12))]) }

TextValues ==
    { Undefined, Null, JStr(<<>>), TextOk, JNum(Num(3)), JNum(Rat(5, 2)),
      Scalar(BoolLeaf(TRUE)), JArr(<<StrLeaf(<<"a">>), NumLeaf(Num(2))>>), JObj(NoProps) }

ListValues ==
    { Undefined, Null, JStr(<<"a">>), JArr(<<>>), ListA, JObj(NoProps),
      JArr(<<StrLeaf(<<"a">>), NumLeaf(Num(2)), NullLeaf, BoolLeaf(FALSE), EmptyObjectLeaf>>) }

\* a well-formed entry document whose text properties all differ
FullDoc ==
    [GoodDoc(Day1, 5) EXCEPT !.summary = JStr(<<"s">>), !.encouragement = JStr(<<"e">>),
                             !.feedback = JStr(<<"f">>), !.overallWrapUp = JStr(<<"w">>),
                             !.strengths = JArr(<<StrLeaf(<<"p">>)>>),
                             !.weaknesses = JArr(<<StrLeaf(<<"q">>)>>)]

AllDocs ==
    { ObjectDoc(d, sc, SomeScores, Undefined, TextOk, ListA) : d \in DateValues, sc \in ScoreValues }
    \cup { ObjectDoc(JStr(Day1), JNum(Num(5)), ds, ar, TextOk, ListA) :
             ds \in ScoreSources, ar \in AreaSources }
    \cup { [FullDoc EXCEPT !.summary = t] : t \in TextValues }
    \cup { [FullDoc EXCEPT !.encouragement = t] : t \in TextValues }
    \cup { [FullDoc EXCEPT !.feedback = t] : t \in TextValues }
    \cup { [FullDoc EXCEPT !.overallWrapUp = t] : t \in TextValues }
    \cup { [FullDoc EXCEPT !.strengths = l] : l \in ListValues }
    \cup { [FullDoc EXCEPT !.weaknesses = l] : l \in ListValues }
    \cup { Doc(top) : top \in {"null", "number", "string", "array", "true", "object"} }

AllInputs ==
    { Raw(w, "json", d) : w \in {"none", "fence"}, d \in AllDocs }
    \cup { Raw(w, b, Doc("null")) :
             w \in {"none", "fence", "proseFence", "prose"}, b \in {"empty", "garbage"} }
    \cup { Raw(w, "json", FullDoc) : w \in {"proseFence", "prose"} }

\* the entries a session finds persisted: those stored, in order, from the
\* given texts by an earlier session at time t
RECURSIVE Persisted(_, _)
Persisted(raws, t) ==
    IF raws = <<>> THEN <<>>
    ELSE addEntry(parsePayload(raws[Len(raws)], "v2").payload,
                  Persisted(SubSeq(raws, 1, Len(raws) - 1), t), t)

EarlierTime == At(2024, 1, 3, 21, 0)

InitParse ==
    \E raw \in AllInputs, t \in SessionTimes :
        \E list \in {<<>>, Persisted(<<Raw("fence", "json", GoodDoc(YMD(2024, 1, 3), 7))>>, EarlierTime)} :
            Mount(list, raw, t)

NextParse == Submit \/ ClearAll

SpecParse == InitParse /\ [][NextParse]_vars

(***************************************************************************)
(* SpecAgg: a session that mounts, at one of several times around the turn *)
(* of the year, on entries persisted by earlier sessions, and changes the  *)
(* number of days of the weekly report prompt.                             *)
(***************************************************************************)
MaxPersisted == 3

AggDoc(date, score, career, leisure) ==
    ObjectDoc(JStr(date), JNum(Num(score)),
              ObjOf([career |-> NumLeaf(Num(career)), leisure |-> NumLeaf(Num(leisure))]),
              Undefined, TextOk, ListA)

AggInputs ==
    { Raw("fence", "json", AggDoc(YMD(2024, 12, 30), 4, 3, 10)),
      Raw("fence", "json", AggDoc(YMD(2024, 12, 31), 6, 4, 0)),
      Raw("fence", "json", AggDoc(YMD(2024, 1, 3), 8, 8, 1)),
      Raw("fence", "json", AggDoc(YMD(2025, 1, 1), 10, 9, 2)) }

AggTimes == {At(2024, 12, 30, 0, 0), At(2024, 12, 30, 14, 30), At(2025, 1, 1, 9, 0)}

SeqsUpTo(S, n) == UNION {[1..k -> S] : k \in 0..n}

InitAgg ==
    \E raws \in SeqsUpTo(AggInputs, MaxPersisted), t \in AggTimes :
        Mount(Persisted(raws, EarlierTime), EmptyText, t)

NextAgg ==
    \/ \E value \in WeeklyCountInputs : SetWeeklyCount(value)
    \/ ClearAll

SpecAgg == InitAgg /\ [][NextAgg]_vars

(***************************************************************************)
(* Properties                                                              *)
(***************************************************************************)
\* parsePayload throws on the text in the textarea (the date-fns release
\* decides which error is thrown, never whether one is)
ParseFails == \E release \in DateFnsReleases : ~parsePayload(rawInput, release).ok

ParseSucceeds == \E release \in DateFnsReleases : parsePayload(rawInput, release).ok

\* C1: whenever parsePayload fails on the raw input, submit leaves the entry
\* list as it was and sets a non-empty error message.
C1_FailedSubmitStoresNothing ==
    [][(Submit /\ ParseFails) => (entries' = entries /\ error' /= "")]_vars

\* a failed submit has left its message and the persisted entry is still there
C1_Witness == error = ScoreErrorMessage /\ Len(entries) = 1

\* the value is a JSON number that is an integer in [lo, 10]
IsIntegerIn(v, lo) ==
    v.k = "number" /\ IsInteger(v.num) /\ NumGe(v.num, lo) /\ NumLe(v.num, 10)

\* the number is an integer in [lo, 10]
IntegerIn(x, lo) == IsInteger(x) /\ NumGe(x, lo) /\ NumLe(x, 10)

StoredScoresInRange ==
    \A i \in 1..Len(entries) : IntegerIn(entries[i].lifeHelpScore, 1)

\* C2 as stated: parsePayload fails whenever lifeHelpScore is not an integer
\* in [1,10], and every stored entry has an integer lifeHelpScore in [1,10].
C2_Original ==
    /\ ~IsIntegerIn(rawInput.doc.lifeHelpScore, 1) => ~ParseSucceeds
    /\ StoredScoresInRange

\* C2 amended: parsePayload fails whenever Number(lifeHelpScore) is not an
\* integer in [1,10], and every stored entry has an integer lifeHelpScore in
\* [1,10] (the number the given value converts to).
C2_CoercedScoreInRange ==
    /\ ~IntegerIn(NumberOf(rawInput.doc.lifeHelpScore), 1) => ~ParseSucceeds
    /\ StoredScoresInRange

\* the string "8" was submitted and is stored as the number 8
C2_Witness == \E i \in 1..Len(entries) : entries[i].lifeHelpScore = Num(8)

ValidationMessages == {DateErrorMessage, ScoreErrorMessage}

\* C3 as stated: the message of every failed submit names the violated
\* constraint (date or lifeHelpScore).
C3_Original == [][(Submit /\ ParseFails) => error' \in ValidationMessages]_vars

\* the messages a failed submit may show for a text, by the first thing
\* wrong with it
ExpectedMessages(raw) ==
    LET fenced == raw.wrap \in {"fence", "proseFence"}
        date   == raw.doc.date
    IN  IF raw.wrap = "prose" \/ raw.body = "garbage" THEN {SyntaxErrorTokenMessage}
        ELSE IF raw.body = "empty" THEN {SyntaxErrorEndMessage}
        ELSE IF raw.doc.top = "null" THEN {NullTypeErrorMessage}
        ELSE IF ~Truthy(date) THEN {DateErrorMessage}
        ELSE IF date.k /= "string" THEN {DateErrorMessage, SplitTypeErrorMessage}
        ELSE IF ~parseISO(date.s).valid THEN {DateErrorMessage}
        ELSE {ScoreErrorMessage}

\* C3 amended: a failed date check shows the date message and, the date
\* being accepted, a failed score check shows the lifeHelpScore message;
\* text that is not well-formed JSON shows the SyntaxError message of
\* JSON.parse, the document null shows the engine's TypeError message, and
\* a date that is truthy but not a string shows the date message or, with
\* date-fns v3 and later, the TypeError message of parseISO.
C3_MessageByCause ==
    [][(Submit /\ ParseFails) => error' \in ExpectedMessages(rawInput)]_vars

\* a failed submit has shown a generic error of the engine
C3_Witness == error \in {SyntaxErrorTokenMessage, NullTypeErrorMessage}

\* the sub-score the text supplies under a key: that of decagonScores, or of
\* areas when decagonScores is absent (undefined or null)
SuppliedScore(doc, key) ==
    IF ~Nullish(doc.decagonScores) THEN doc.decagonScores.props[key]
    ELSE IF ~Nullish(doc.areas) THEN doc.areas.props[key]
    ELSE UndefinedLeaf

WithoutScores(raw) ==
    [raw EXCEPT !.doc = [raw.doc EXCEPT !.decagonScores = Undefined, !.areas = Undefined]]

PayloadFields ==
    {"date", "summary", "encouragement", "strengths", "weaknesses", "feedback",
     "overallWrapUp", "lifeHelpScore", "decagonScores"}

\* C5: after a successful submit the first entry of the store has the fields
\* of the payload parsePayload returns for the input, with only id and
\* createdAt added.
C5_StoredEntryIsPayload ==
    [][\A release \in DateFnsReleases :
          (Submit /\ parsePayload(rawInput, release).ok) =>
             /\ Len(entries') = Len(entries) + 1
             /\ DOMAIN entries'[1] = PayloadFields \cup {"id", "createdAt"}
             /\ \A f \in PayloadFields :
                  entries'[1][f] = parsePayload(rawInput, release).payload[f]]_vars

\* an entry was stored in this session, with texts that all differ
C5_Witness ==
    /\ entries /= <<>>
    /\ entries[1].createdAt \in SessionTimes
    /\ entries[1].summary = <<"s">>
    /\ entries[1].feedback = <<"f">>

\* C6: in every step the entry list is unchanged, or is one new entry
\* followed by the previous list (a successful submit), or is empty
\* (clearAll).
C6_PrependOrClear ==
    [][\/ entries' = entries
       \/ (Len(entries') = Len(entries) + 1 /\ Tail(entries') = entries /\ Submit)
       \/ (entries' = <<>> /\ ClearAll)]_vars

\* two entries were stored, the later one first
C6_Witness == Len(entries) = 2 /\ entries[1].id = 2 /\ entries[2].id = 1

\* the sum of the numbers of a sequence, added up position by position
RECURSIVE TotalOver(_, _)
TotalOver(values, positions) ==
    IF positions = {} THEN 0
    ELSE LET i == CHOOSE j \in positions : TRUE
         IN  values[i].num + TotalOver(values, positions \ {i})

\* x is the arithmetic mean of the integers of values (0 when there are none)
IsMeanOf(x, values) ==
    /\ ~x.nan
    /\ IF values = <<>> THEN x = Num(0)
       ELSE x.num * Len(values) = x.den * TotalOver(values, DOMAIN values)

SubScores(list, key) == [i \in 1..Len(list) |-> list[i].decagonScores[key]]

AggregationCorrect(list) ==
    /\ IsMeanOf(avg(LifeHelpScores(list)), LifeHelpScores(list))
    /\ \A key \in ScoreKeySet : IsMeanOf(averageDecagon(list)[key], SubScores(list, key))
    /\ \A other \in Orderings(list) :
         /\ avg(LifeHelpScores(other)) = avg(LifeHelpScores(list))
         /\ averageDecagon(other) = averageDecagon(list)
    /\ list = <<>> => (avg(LifeHelpScores(list)) = Num(0) /\ averageDecagon(list) = defaultScores)
    /\ LifeHelpScores(list) \in Orderings(<<Num(4), Num(6), Num(8)>>) =>
         avg(LifeHelpScores(list)) = Num(6)

\* C7: over each period's list (weekly, monthly, yearly) avg and
\* averageDecagon are the arithmetic mean sum/count of the field, whatever
\* the order of the entries; every average of an empty list is 0; the scores
\* 4, 6, 8 average to 6.
C7_AveragesAreMeans ==
    /\ AggregationCorrect(weekly)
    /\ AggregationCorrect(monthly)
    /\ AggregationCorrect(yearly)

\* the year holds entries with the scores 4, 6 and 8, whose mean of one
\* sub-score is not a whole number, and the month holds fewer entries
C7_Witness ==
    /\ LifeHelpScores(yearly) \in Orderings(<<Num(4), Num(6), Num(8)>>)
    /\ avg(LifeHelpScores(yearly)) = Num(6)
    /\ averageDecagon(yearly)["career"] = Num(5)
    /\ averageDecagon(yearly)["leisure"] = Rat(11, 3)
    /\ Len(monthly) = 2 /\ avg(LifeHelpScores(monthly)) = Num(5)

\* the list holds the entry (entries are told apart by their id)
Holds(list, e) == \E i \in 1..Len(list) : list[i].id = e.id

\* both days lie in the same Monday-to-Sunday week
SameISOWeek(a, b) == startOfISOWeek(a.day) = startOfISOWeek(b.day)

\* C8 as stated: weekly holds exactly the stored entries whose date lies in
\* the same Monday-to-Sunday ISO week as the current date.
C8_Original ==
    \A i \in 1..Len(entries) :
        Holds(weekly, entries[i]) <=> SameISOWeek(parseISO(entries[i].date), now)

\* the string is YYYY-MM-DD and names a real calendar day
IsCalendarDay(str) ==
    /\ Len(str) = 10 /\ str[5] = "-" /\ str[8] = "-"
    /\ AllDigits(SubSeq(str, 1, 4) \o SubSeq(str, 6, 7) \o SubSeq(str, 9, 10))
    /\ LET y == ParseDigits(SubSeq(str, 1, 4))
           m == ParseDigits(SubSeq(str, 6, 7))
           d == ParseDigits(SubSeq(str, 9, 10))
       IN  m >= 1 /\ m <= 12 /\ d >= 1 /\ d <= DaysInMonth(y, m)

\* C9 as stated: every stored entry's date is a calendar day YYYY-MM-DD, and
\* parsePayload rejects with the date error every document whose date is
\* anything else.
C9_Original ==
    /\ \A i \in 1..Len(entries) : IsCalendarDay(entries[i].date)
    /\ \A release \in DateFnsReleases :
         LET text == sanitizeJson(rawInput)
             date == text.doc.date
         IN  (text.body = "json" /\ text.doc.top /= "null"
                /\ ~(date.k = "string" /\ IsCalendarDay(date.s)))
             => (LET result == parsePayload(rawInput, release)
                 IN  ~result.ok /\ result.message = DateErrorMessage)

\* the calendar days from N - 1 days before today to today
InLastDays(date, count, t) ==
    date.valid /\ date.day <= t.day /\ NumGt(count, t.day - date.day)

\* C10 as stated: weeklyCount stays within [1,30]; the selection has at most
\* weeklyCount entries, all dated within the last weeklyCount calendar days
\* counting today; and every stored entry dated within those days passes the
\* date filter.
C10_Original ==
    /\ NumGe(weeklyCount, 1) /\ NumLe(weeklyCount, 30)
    /\ NumGe(weeklyCount, Len(selectedWeeklyForPrompt))
    /\ \A i \in 1..Len(selectedWeeklyForPrompt) :
         InLastDays(parseISO(selectedWeeklyForPrompt[i].date), weeklyCount, now)
    /\ \A i \in 1..Len(entries) :
         InLastDays(parseISO(entries[i].date), weeklyCount, now) =>
            \A release \in DateFnsReleases :
               Holds(recentOf(sorted, weeklyCount, now, release), entries[i])

\* C11: after every successful submit, whatever the state before it (an
\* error message left by a failed submit or a failed copy included), the
\* error message is empty, the raw input is empty, the date filter is the
\* new entry's date, and the same-day filtered list holds the new entry.
C11_SuccessfulSubmitShowsEntry ==
    [][(Submit /\ Len(entries') = Len(entries) + 1) =>
          /\ error' = ""
          /\ rawInput' = EmptyText
          /\ filterDate' = entries'[1].date
          /\ \E i \in 1..Len(filtered') : filtered'[i] = entries'[1]]_vars

\* a second entry was just stored: nothing is left in the textarea or the
\* error line, and the filter shows the new entry without the earlier one,
\* which has another date
C11_Witness ==
    /\ Len(entries) = 2
    /\ error = "" /\ rawInput = EmptyText
    /\ filterDate = entries[1].date
    /\ filterDate /= FormatYearMonthDay(now)
    /\ filtered = <<entries[1]>>

====
